---- MODULE Spec2Model ----
(***************************************************************************)
(* Model of src/lib/crevio.ts: the client factory createCrevioClient and   *)
(* the two asynchronous accessors fetchProducts and fetchProduct.          *)
(*                                                                         *)
(* An invocation of an async function runs synchronously up to its await   *)
(* (client construction and the issue of the remote call), suspends, and   *)
(* resumes when the remote promise settles.  Several invocations may be    *)
(* suspended at once and resume in any order.                              *)
(***************************************************************************)
EXTENDS Integers, Sequences, FiniteSets, TLC

(* ---------------------------- bounds ----------------------------------- *)

\* Number of accessor invocations made during one run of the process.
MaxCalls == 2

(* ------------------------ JavaScript values ---------------------------- *)

Undefined == [t |-> "undefined"]
Null == [t |-> "null"]
Str(s) == [t |-> "string", s |-> s]
Product(id) == [t |-> "object", id |-> id]
Array(items) == [t |-> "array", items |-> items]

\* new Error(message): an Error object with that message and no cause.
NewError(message) == [t |-> "Error", message |-> message, cause |-> "undefined"]

\* JavaScript truthiness of the values the remote list call can yield:
\* null and undefined are falsy, every object (an empty array included) is truthy.
Truthy(v) == v.t \notin {"undefined", "null"}

(* --------------------------- input domains ----------------------------- *)

\* Values of process.env the process may run with (absent variables read as undefined).
Envs ==
    { [CREVIO_ACCOUNT_API_KEY |-> Undefined, CREVIO_PROJECT_URL |-> Undefined],
      [CREVIO_ACCOUNT_API_KEY |-> Str("sk_test_1"),
       CREVIO_PROJECT_URL |-> Str("https://shop.crevio.app")] }

\* Identifier strings passed to fetchProduct (no validation: the empty string too).
Ids == {"", "prod_123", "prod_456"}

\* What a successful crevio.products.list() can yield.
ListResults ==
    { Array(<<Product("prod_1"), Product("prod_2")>>),
      Array(<<Product("prod_2"), Product("prod_1")>>),
      Array(<<>>), Null, Undefined }

\* What a successful crevio.products.get() can yield.
GetResults == { Product("prod_1"), Product("prod_2") }

\* Causes a remote call can fail with.
Causes ==
    { NewError("fetch failed: ECONNREFUSED"),
      NewError("401 Unauthorized"),
      NewError("404 Not Found"),
      NewError("Response validation failed") }

\* What the SDK constructor can throw.
CtorErrors == { NewError("Invalid server URL") }

NoRef == 0
NoError == [t |-> "none", message |-> "", cause |-> "undefined"]
NoArg == "<no argument>"

Pending == [status |-> "pending", value |-> Undefined]
Fulfilled(v) == [status |-> "fulfilled", value |-> v]
Rejected(e) == [status |-> "rejected", value |-> e]

\* Settlement of the promise a remote call returned.
NotSettled == [kind |-> "none", value |-> Undefined]
RemoteValue(v) == [kind |-> "value", value |-> v]
RemoteError(e) == [kind |-> "error", value |-> e]

(* ------------------------------ state ---------------------------------- *)

VARIABLES
    env,     \* process.env: the two configuration variables
    heap,    \* the Crevio client objects constructed so far, by reference
    calls,   \* the accessor invocations made so far, in order of invocation
    console  \* what was written with console.error, in order

vars == <<env, heap, calls, console>>

(* --------------------------- the program ------------------------------- *)

\* Variant of createCrevioClient that keeps the first client it built and hands
\* it out again (a module-level cached handle).
createCrevioClientCached(h, e) ==
    IF Len(h) > 0
    THEN [heap |-> h, ref |-> 1]
    ELSE [heap |-> Append(h, [apiKeyAuth |-> e.CREVIO_ACCOUNT_API_KEY,
                              serverURL |-> e.CREVIO_PROJECT_URL]),
          ref |-> Len(h) + 1]

\* createCrevioClient(): allocates a new Crevio object configured from the
\* environment as it is at the time of the call, and returns a reference to it.
createCrevioClient(h, e) ==
    [heap |-> Append(h, [apiKeyAuth |-> e.CREVIO_ACCOUNT_API_KEY,
                         serverURL |-> e.CREVIO_PROJECT_URL]),
     ref |-> Len(h) + 1]

\* Variant of GetRequest that normalises the identifier before forwarding it.
GetRequestNormalised(prefixId) == [prefixId |-> "prod_" \o prefixId]

\* The request object handed to crevio.products.get.
GetRequest(prefixId) == [prefixId |-> prefixId]

\* Variant of ResultOrEmpty without the fallback: return result
ResultOrEmptyPassThrough(result) == result

\* Variant of ResultOrEmpty with the operands swapped: [] || result
ResultOrEmptySwapped(result) == Array(<<>>)

\* result || []
ResultOrEmpty(result) == IF Truthy(result) THEN result ELSE Array(<<>>)

\* Variant of the catch block of fetchProducts that rethrows what it caught.
fetchProductsCatchRethrow(error) ==
    [logged |-> <<"Error fetching products:", error>>,
     outcome |-> Rejected(error)]

\* Variant of the catch block of fetchProducts that swallows the failure and
\* returns an empty list.
fetchProductsCatchSwallow(error) ==
    [logged |-> <<"Error fetching products:", error>>,
     outcome |-> Fulfilled(Array(<<>>))]

\* The catch block of fetchProducts.
fetchProductsCatch(error) ==
    [logged |-> <<"Error fetching products:", error>>,
     outcome |-> Rejected(NewError("Failed to load products"))]

\* Variant of the catch block of fetchProduct whose message leaves the identifier out.
fetchProductCatchNoId(prefixId, error) ==
    [logged |-> <<"Error fetching product:", error>>,
     outcome |-> Rejected(NewError("Failed to load product: "))]

\* Variant of the catch block of fetchProduct whose message carries the cause.
fetchProductCatchLeak(prefixId, error) ==
    [logged |-> <<"Error fetching product:", error>>,
     outcome |-> Rejected(NewError("Failed to load product: " \o prefixId
                                   \o ": " \o error.message))]

\* The catch block of fetchProduct.
fetchProductCatch(prefixId, error) ==
    [logged |-> <<"Error fetching product:", error>>,
     outcome |-> Rejected(NewError("Failed to load product: " \o prefixId))]

\* Variant of Activation in which the parameter and locals live in one shared
\* place, overwritten by the most recent invocation.
ActivationShared(cs, i) == cs[Len(cs)]

\* The activation record in which invocation i runs: its own parameter and locals.
Activation(cs, i) == cs[i]

\* A fresh activation record of fn(prefixId).
NewCall(fn, prefixId) ==
    [fn |-> fn, prefixId |-> prefixId, pc |-> "try", crevio |-> NoRef,
     sent |-> <<>>, response |-> NotSettled, error |-> NoError, outcome |-> Pending]

\* fetchProducts up to its await: the client was constructed (reference ref) and
\* the remote list call issued on it.
fetchProductsAwait(c, ref) ==
    [c EXCEPT !.pc = "await", !.crevio = ref,
              !.sent = Append(@, [op |-> "list", client |-> ref, request |-> Undefined])]

\* fetchProduct up to its await.
fetchProductAwait(c, ref) ==
    [c EXCEPT !.pc = "await", !.crevio = ref,
              !.sent = Append(@, [op |-> "get", client |-> ref,
                                  request |-> GetRequest(c.prefixId)])]

\* Variant of fetchProducts that issues the remote call once more after a first failure.
fetchProductsResumeRetry(c, r) ==
    IF r.kind = "value"
    THEN [call |-> [c EXCEPT !.pc = "done", !.response = r,
                             !.outcome = Fulfilled(ResultOrEmpty(r.value))],
          logged |-> <<>>]
    ELSE IF Len(c.sent) < 2
    THEN [call |-> [c EXCEPT !.response = r, !.sent = Append(@, c.sent[1])],
          logged |-> <<>>]
    ELSE LET h == fetchProductsCatch(r.value)
         IN [call |-> [c EXCEPT !.pc = "done", !.response = r, !.error = r.value,
                                !.outcome = h.outcome],
             logged |-> <<h.logged>>]

\* fetchProducts from its await on, once the remote promise settled with r.
fetchProductsResume(c, r) ==
    IF r.kind = "value"
    THEN [call |-> [c EXCEPT !.pc = "done", !.response = r,
                             !.outcome = Fulfilled(ResultOrEmpty(r.value))],
          logged |-> <<>>]
    ELSE LET h == fetchProductsCatch(r.value)
         IN [call |-> [c EXCEPT !.pc = "done", !.response = r, !.error = r.value,
                                !.outcome = h.outcome],
             logged |-> <<h.logged>>]

\* fetchProduct from its await on, once the remote promise settled with r.
fetchProductResume(c, r) ==
    IF r.kind = "value"
    THEN [call |-> [c EXCEPT !.pc = "done", !.response = r,
                             !.outcome = Fulfilled(r.value)],
          logged |-> <<>>]
    ELSE LET h == fetchProductCatch(c.prefixId, r.value)
         IN [call |-> [c EXCEPT !.pc = "done", !.response = r, !.error = r.value,
                                !.outcome = h.outcome],
             logged |-> <<h.logged>>]

(* ------------------------------ actions -------------------------------- *)

Init ==
    /\ env \in Envs
    /\ heap = <<>>
    /\ calls = <<>>
    /\ console = <<>>

\* A caller invokes fetchProducts(); the constructor succeeds and the
\* invocation suspends on the remote list call.
CallFetchProducts ==
    /\ Len(calls) < MaxCalls
    /\ LET made == createCrevioClient(heap, env)
       IN /\ heap' = made.heap
          /\ calls' = Append(calls, fetchProductsAwait(NewCall("fetchProducts", NoArg), made.ref))
    /\ UNCHANGED <<env, console>>

\* A caller invokes fetchProducts() and the construction of the client throws.
CallFetchProductsCtorThrows ==
    /\ Len(calls) < MaxCalls
    /\ \E e \in CtorErrors :
         LET h == fetchProductsCatch(e)
         IN /\ calls' = Append(calls, [NewCall("fetchProducts", NoArg) EXCEPT
                                          !.pc = "done", !.error = e, !.outcome = h.outcome])
            /\ console' = Append(console, h.logged)
    /\ UNCHANGED <<env, heap>>

\* A caller invokes fetchProduct(prefixId).
CallFetchProduct ==
    /\ Len(calls) < MaxCalls
    /\ \E prefixId \in Ids :
         LET made == createCrevioClient(heap, env)
         IN /\ heap' = made.heap
            /\ calls' = Append(calls, fetchProductAwait(NewCall("fetchProduct", prefixId), made.ref))
    /\ UNCHANGED <<env, console>>

\* A caller invokes fetchProduct(prefixId) and the construction of the client throws.
CallFetchProductCtorThrows ==
    /\ Len(calls) < MaxCalls
    /\ \E prefixId \in Ids, e \in CtorErrors :
         LET h == fetchProductCatch(prefixId, e)
         IN /\ calls' = Append(calls, [NewCall("fetchProduct", prefixId) EXCEPT
                                          !.pc = "done", !.error = e, !.outcome = h.outcome])
            /\ console' = Append(console, h.logged)
    /\ UNCHANGED <<env, heap>>

\* The remote list call of a suspended fetchProducts settles and the invocation resumes.
ResumeFetchProducts ==
    \E i \in 1..Len(calls) :
        /\ calls[i].fn = "fetchProducts"
        /\ calls[i].pc = "await"
        /\ \E r \in {RemoteValue(v) : v \in ListResults} \cup {RemoteError(e) : e \in Causes} :
             LET s == fetchProductsResume(Activation(calls, i), r)
             IN /\ calls' = [calls EXCEPT ![i] = s.call]
                /\ console' = console \o s.logged
        /\ UNCHANGED <<env, heap>>

\* The remote get call of a suspended fetchProduct settles and the invocation resumes.
ResumeFetchProduct ==
    \E i \in 1..Len(calls) :
        /\ calls[i].fn = "fetchProduct"
        /\ calls[i].pc = "await"
        /\ \E r \in {RemoteValue(v) : v \in GetResults} \cup {RemoteError(e) : e \in Causes} :
             LET s == fetchProductResume(Activation(calls, i), r)
             IN /\ calls' = [calls EXCEPT ![i] = s.call]
                /\ console' = console \o s.logged
        /\ UNCHANGED <<env, heap>>

\* The process environment is rewritten from outside this module.
WriteEnv ==
    /\ \E e \in Envs \ {env} : env' = e
    /\ UNCHANGED <<heap, calls, console>>

Next ==
    \/ CallFetchProducts
    \/ CallFetchProductsCtorThrows
    \/ CallFetchProduct
    \/ CallFetchProductCtorThrows
    \/ ResumeFetchProducts
    \/ ResumeFetchProduct
    \/ WriteEnv

Spec == Init /\ [][Next]_vars

(* ----------------------------- properties ------------------------------ *)

Invocations == 1..Len(calls)

RemoteFailed(c) == c.response.kind = "error"
RemoteSucceeded(c) == c.response.kind = "value"
CtorFailed(c) == c.pc = "done" /\ c.crevio = NoRef
IsRejected(c) == c.outcome.status = "rejected"
IsFulfilled(c) == c.outcome.status = "fulfilled"
InConsole(entry) == \E k \in 1..Len(console) : console[k] = entry

\* C1: whenever the remote list call of a fetchProducts invocation fails, the
\* invocation is rejected with a new error whose message is exactly
\* "Failed to load products"; the raised error is not the original error, does
\* not carry it as its cause, and its message is not the original message.
C1_ListFailureMessage ==
    \A i \in Invocations :
        (calls[i].fn = "fetchProducts" /\ RemoteFailed(calls[i]))
            => /\ IsRejected(calls[i])
               /\ calls[i].outcome.value.message = "Failed to load products"
               /\ calls[i].outcome.value.cause = "undefined"
               /\ calls[i].outcome.value # calls[i].response.value
               /\ calls[i].outcome.value.message # calls[i].response.value.message

C1_Witness ==
    \E i \in Invocations :
        /\ calls[i].fn = "fetchProducts"
        /\ RemoteFailed(calls[i])
        /\ calls[i].response.value.message = "401 Unauthorized"
        /\ IsRejected(calls[i])

\* C2: whenever the remote get call of fetchProduct(id) fails, the invocation is
\* rejected with message "Failed to load product: " followed by that same id;
\* for id "prod_123" the message is "Failed to load product: prod_123".
C2_GetFailureMessage ==
    \A i \in Invocations :
        (calls[i].fn = "fetchProduct" /\ RemoteFailed(calls[i]))
            => /\ IsRejected(calls[i])
               /\ calls[i].outcome.value.message
                      = "Failed to load product: " \o calls[i].prefixId
               /\ (calls[i].prefixId = "prod_123"
                      => calls[i].outcome.value.message = "Failed to load product: prod_123")

C2_Witness ==
    \E i \in Invocations :
        /\ calls[i].fn = "fetchProduct"
        /\ calls[i].prefixId = "prod_123"
        /\ RemoteFailed(calls[i])
        /\ calls[i].response.value.message = "fetch failed: ECONNREFUSED"
        /\ calls[i].outcome.value.message = "Failed to load product: prod_123"

\* C3: whenever the remote list call succeeds, fetchProducts is fulfilled with
\* an array, never with an absent value; when the remote result is falsy (null,
\* undefined) it is fulfilled with the empty array.
C3_ListNeverAbsent ==
    \A i \in Invocations :
        (calls[i].fn = "fetchProducts" /\ RemoteSucceeded(calls[i]))
            => /\ IsFulfilled(calls[i])
               /\ calls[i].outcome.value.t = "array"
               /\ (~Truthy(calls[i].response.value)
                      => calls[i].outcome.value = Array(<<>>))

C3_Witness ==
    \E i \in Invocations :
        /\ calls[i].fn = "fetchProducts"
        /\ calls[i].response = RemoteValue(Null)
        /\ calls[i].outcome = Fulfilled(Array(<<>>))

\* C4: whenever the remote list call succeeds with an array of product records,
\* fetchProducts is fulfilled with that same array: same elements, same length,
\* same order.
C4_ListPassedThrough ==
    \A i \in Invocations :
        (/\ calls[i].fn = "fetchProducts"
         /\ RemoteSucceeded(calls[i])
         /\ calls[i].response.value.t = "array")
            => /\ IsFulfilled(calls[i])
               /\ calls[i].outcome.value.t = "array"
               /\ Len(calls[i].outcome.value.items) = Len(calls[i].response.value.items)
               /\ \A k \in 1..Len(calls[i].response.value.items) :
                      calls[i].outcome.value.items[k] = calls[i].response.value.items[k]

C4_Witness ==
    \E i \in Invocations :
        /\ calls[i].fn = "fetchProducts"
        /\ calls[i].response = RemoteValue(Array(<<Product("prod_1"), Product("prod_2")>>))
        /\ calls[i].outcome = Fulfilled(Array(<<Product("prod_1"), Product("prod_2")>>))

\* C5: for a non-empty id, when the remote get call succeeds, fetchProduct(id)
\* has forwarded id unchanged in the one request it sent to the remote get
\* operation, and is fulfilled with exactly the record the remote call supplied.
C5_GetPassedThrough ==
    \A i \in Invocations :
        (/\ calls[i].fn = "fetchProduct"
         /\ calls[i].prefixId # ""
         /\ RemoteSucceeded(calls[i]))
            => /\ Len(calls[i].sent) = 1
               /\ calls[i].sent[1].op = "get"
               /\ calls[i].sent[1].request = [prefixId |-> calls[i].prefixId]
               /\ calls[i].outcome = Fulfilled(calls[i].response.value)

C5_Witness ==
    \E i \in Invocations :
        /\ calls[i].fn = "fetchProduct"
        /\ calls[i].prefixId = "prod_456"
        /\ calls[i].response = RemoteValue(Product("prod_2"))
        /\ calls[i].outcome = Fulfilled(Product("prod_2"))

\* C6: failures are re-raised, never swallowed: a finished invocation whose
\* client construction or remote call failed is rejected, every finished
\* invocation is either fulfilled or rejected, and an invocation is fulfilled
\* only if its remote call succeeded.
C6_FailuresReRaised ==
    \A i \in Invocations :
        /\ (CtorFailed(calls[i]) \/ RemoteFailed(calls[i])) => IsRejected(calls[i])
        /\ calls[i].pc = "done" => (IsRejected(calls[i]) \/ IsFulfilled(calls[i]))
        /\ IsFulfilled(calls[i]) => RemoteSucceeded(calls[i])

C6_Witness ==
    \E i, j \in Invocations :
        /\ calls[i].fn = "fetchProducts" /\ CtorFailed(calls[i]) /\ IsRejected(calls[i])
        /\ calls[j].fn = "fetchProducts" /\ RemoteFailed(calls[j]) /\ IsRejected(calls[j])

\* C7: two invocations of the same accessor with the same argument that both
\* fail raise identical errors whatever their causes were; the cause of a failed
\* invocation is on the console and is neither the raised error nor its cause.
C7_ErrorIndependentOfCause ==
    /\ \A i, j \in Invocations :
          (/\ calls[i].fn = calls[j].fn
           /\ calls[i].prefixId = calls[j].prefixId
           /\ IsRejected(calls[i])
           /\ IsRejected(calls[j]))
              => calls[i].outcome = calls[j].outcome
    /\ \A i \in Invocations :
          IsRejected(calls[i])
              => /\ calls[i].error # NoError
                 /\ InConsole(<<IF calls[i].fn = "fetchProducts"
                                THEN "Error fetching products:"
                                ELSE "Error fetching product:", calls[i].error>>)
                 /\ calls[i].outcome.value # calls[i].error
                 /\ calls[i].outcome.value.cause = "undefined"

C7_Witness ==
    \E i, j \in Invocations :
        /\ calls[i].fn = "fetchProduct" /\ calls[j].fn = "fetchProduct"
        /\ calls[i].prefixId = "prod_123" /\ calls[j].prefixId = "prod_123"
        /\ IsRejected(calls[i]) /\ IsRejected(calls[j])
        /\ calls[i].error.message = "fetch failed: ECONNREFUSED"
        /\ calls[j].error.message = "404 Not Found"

\* C8: an invocation that starts constructs a client that did not exist before,
\* configured with the API key and server URL the environment holds at that
\* step, and issues its remote call on that client; at all times no client is
\* referred to or used by more than one invocation.
C8_FreshClientPerCall ==
    [][ /\ \A i \in 1..Len(calls') :
              (i > Len(calls) /\ calls'[i].crevio # NoRef)
                  => /\ calls'[i].crevio > Len(heap)
                     /\ calls'[i].crevio <= Len(heap')
                     /\ heap'[calls'[i].crevio]
                            = [apiKeyAuth |-> env.CREVIO_ACCOUNT_API_KEY,
                               serverURL |-> env.CREVIO_PROJECT_URL]
        /\ \A i \in 1..Len(calls') :
              \A k \in 1..Len(calls'[i].sent) : calls'[i].sent[k].client = calls'[i].crevio
        /\ \A i, j \in 1..Len(calls') :
              (i # j /\ calls'[i].crevio # NoRef) => calls'[i].crevio # calls'[j].crevio
      ]_vars

C8_Witness ==
    /\ Len(calls) = 2
    /\ calls[1].fn = "fetchProducts" /\ calls[2].fn = "fetchProduct"
    /\ calls[1].crevio = 1 /\ calls[2].crevio = 2
    /\ heap[1].apiKeyAuth = Undefined
    /\ heap[2].apiKeyAuth = Str("sk_test_1")
    /\ heap[2].serverURL = Str("https://shop.crevio.app")

\* C9: no retry: an invocation issues at most one remote call, and once that
\* call has failed the invocation is finished and rejected with exactly that one
\* call issued.
C9_NoRetry ==
    \A i \in Invocations :
        /\ Len(calls[i].sent) <= 1
        /\ RemoteFailed(calls[i])
              => /\ calls[i].pc = "done"
                 /\ IsRejected(calls[i])
                 /\ Len(calls[i].sent) = 1

C9_Witness ==
    \E i, j \in Invocations :
        /\ calls[i].fn = "fetchProducts" /\ RemoteFailed(calls[i]) /\ Len(calls[i].sent) = 1
        /\ calls[j].fn = "fetchProduct" /\ RemoteFailed(calls[j]) /\ Len(calls[j].sent) = 1

\* C10: concurrent invocations are independent: a step changes at most one
\* invocation, never a finished one, and never an invocation's function or
\* argument; the invocation it settles is rejected only if its own remote call
\* failed, with the message built from its own argument, and is fulfilled with
\* its own remote result.
C10_Independent ==
    [][ \A i \in Invocations :
          /\ calls'[i].fn = calls[i].fn
          /\ calls'[i].prefixId = calls[i].prefixId
          /\ calls[i].pc = "done" => calls'[i] = calls[i]
          /\ calls'[i] # calls[i]
                => /\ \A j \in Invocations \ {i} : calls'[j] = calls[j]
                   /\ IsRejected(calls'[i]) => RemoteFailed(calls'[i])
                   /\ (IsRejected(calls'[i]) /\ calls[i].fn = "fetchProduct")
                         => calls'[i].outcome.value.message
                                = "Failed to load product: " \o calls[i].prefixId
                   /\ (IsRejected(calls'[i]) /\ calls[i].fn = "fetchProducts")
                         => calls'[i].outcome.value.message = "Failed to load products"
                   /\ IsFulfilled(calls'[i])
                         => /\ RemoteSucceeded(calls'[i])
                            /\ calls[i].fn = "fetchProduct"
                                  => calls'[i].outcome.value = calls'[i].response.value
      ]_vars

C10_Witness ==
    /\ Len(calls) = 2
    /\ calls[1].fn = "fetchProduct" /\ calls[2].fn = "fetchProduct"
    /\ calls[1].prefixId = "prod_123" /\ calls[2].prefixId = "prod_456"
    /\ calls[1].pc = "await"
    /\ IsRejected(calls[2])
    /\ calls[2].outcome.value.message = "Failed to load product: prod_456"

====
